---- MODULE Spec2Model ----
(***************************************************************************)
(* A model of frappe/bencher.py: the bench layout resolver with its        *)
(* registries of apps (Apps / Apps.App) and of sites (Sites / Sites.Site). *)
(*                                                                         *)
(* Python detail the model keeps: inside `class Sites` the attribute       *)
(* `self.__sites` is name-mangled by the compiler to `_Sites__sites`,      *)
(* while the string given to hasattr(self, "__sites") is not.  Instances   *)
(* are therefore modelled by their attribute dictionary (a function from   *)
(* attribute names to values), and every access uses the name Python uses. *)
(***************************************************************************)
EXTENDS Integers, Sequences, FiniteSets, TLC

\* ------------------------------------------------------------------ bounds
NumSites == 2
MaxEdits == 1
MaxScans == 2

\* ------------------------------------------------------------ the universe
SiteDirNames == <<"site1", "site2", "site3", "site4">>
SiteNames == {SiteDirNames[i] : i \in 1..NumSites}

SCOPE_ALL_SITES == "__scope-all-sites__"
None == "None"

\* What sites/<name> is on disk: nothing, a plain file, a directory without
\* site_config.json, or a directory that holds site_config.json.
EntryKinds == {"absent", "file", "dir", "site"}

\* The executions (threads) that share one Sites instance.
Execs == {"A", "B"}
Main == "A"

VARIABLES
    fs,           \* [SiteNames -> EntryKinds]: the entries of the sites root
    sites_obj,    \* attribute dictionary of the Sites instance
    site_name,    \* [Execs -> name | SCOPE_ALL_SITES | None]: frappe.local.site_name
    last,         \* the call that completed last, and how it ended
    scope_log,    \* history: <<previous, latest>> argument of Main's scope(name) calls
    marks         \* history: <<"added" | "removed", name>> of the latest add_site /
                  \* remove_site that returned normally, with no scope() since

VARIABLES
    common_file,  \* content of sites/common_site_config.json
    site_file,    \* content of the site's site_config.json
    sites_store,  \* the ConfigHandler part of the Sites instance
    site_store,   \* [Tenants -> the ConfigHandler part of the Site object]
    combined,     \* [Tenants -> _combined_config, or Unset]
    edits         \* number of changes made to the files so far

VARIABLES
    apps_dir,     \* [AppNames -> AppKinds]: the entries of the apps root
    apps_txt,     \* sites/apps.txt: Unset (no file) or Some(the names it lists)
    apps_obj,     \* attribute dictionary of the Apps instance
    apps_scans,   \* how often the Apps instance has scanned its directory
    mods_dir,     \* [ModNames -> ModKinds]: the entries of the held App's python_path
    modules_txt,  \* <python_path>/modules.txt: Unset or Some(the titles it lists)
    app_obj,      \* attribute dictionary of the held App object
    mods_scans    \* how often the held App has scanned its python_path

VARIABLES
    frame,        \* [Execs -> the call an execution is in the middle of]
    steady,       \* [Execs -> during the call both executions were scoped
                  \*           and the other one was not inside scope()]
    actor         \* the execution that took the last step

VARIABLES
    resolved      \* the last construction of a path-resolved entity: its
                  \* inputs and the path (or the error) it ended with

VARIABLES
    regs,         \* [RegIds -> a Sites instance of the one execution, or none yet]
    env_site,     \* the environment variable FRAPPE_SITE, None when not set
    ident_log     \* <<how, registry, value>> of the identifier's last assignment

sitesVars == <<fs, sites_obj, site_name, scope_log, marks>>
regVars == <<regs, env_site, ident_log>>
pathVars == <<resolved>>
concVars == <<frame, steady, actor>>
configVars == <<common_file, site_file, sites_store, site_store, combined, edits>>
appsVars == <<apps_dir, apps_txt, apps_obj, apps_scans,
              mods_dir, modules_txt, app_obj, mods_scans>>
vars == <<fs, sites_obj, site_name, last, scope_log, marks,
          common_file, site_file, sites_store, site_store, combined, edits,
          apps_dir, apps_txt, apps_obj, apps_scans,
          mods_dir, modules_txt, app_obj, mods_scans, frame, steady, actor, resolved,
          regs, env_site, ident_log>>

\* -------------------------------------------------- attribute dictionaries
NoAttrs == [a \in {} |-> {}]
HasAttr(obj, a) == a \in DOMAIN obj
SetAttr(obj, a, v) == [k \in (DOMAIN obj) \cup {a} |-> IF k = a THEN v ELSE obj[k]]
DelAttr(obj, a) == [k \in (DOMAIN obj) \ {a} |-> obj[k]]

\* `self.__sites` as compiled inside class Sites.
PrivSites == "_Sites__sites"

\* dictionaries keyed by name
EmptyDict == [k \in {} |-> {}]
DictPut(d, k, v) == [x \in (DOMAIN d) \cup {k} |-> IF x = k THEN v ELSE d[x]]
DictDel(d, k) == [x \in (DOMAIN d) \ {k} |-> d[x]]
DictValues(d) == {d[k] : k \in DOMAIN d}

\* ------------------------------------------------------------- Sites.Site
\* A Site object.  built_under records the active identifier of the
\* execution that constructed it (bookkeeping for the scoping claims).
Site(name, scope) == [name |-> name, built_under |-> scope]

\* ----------------------------------------------------------------- Sites
\* site_name getter / setter: one slot per execution in frappe.local.
GetSiteName(e) == site_name[e]
SetSiteName_shared(e, value) == [x \in Execs |-> value]
SetSiteName(e, value) == [site_name EXCEPT ![e] = value]

\* _process's test: path.is_dir() and path/site_config.json exists.
IsSiteDir(f, n) == f[n] = "site"

\* The paths _sites hands to _process under identifier sn.
ScanTargets_wholeRoot(f, sn) == {n \in SiteNames : f[n] # "absent"}
ScanTargets(f, sn) ==
    IF sn = SCOPE_ALL_SITES THEN {n \in SiteNames : f[n] # "absent"}
    ELSE IF sn = None THEN {}
    ELSE {sn} \cap SiteNames

\* The dictionary _sites builds: {} and then _process of every target.
Rebuild(f, sn) ==
    [n \in {t \in ScanTargets(f, sn) : IsSiteDir(f, t)} |-> Site(n, sn)]

\* hasattr(self, "__sites"): the literal, unmangled name.
HasSitesCache(obj) == HasAttr(obj, "__sites")

\* The _sites property: [obj: the instance afterwards, map: the dict returned].
SitesProp(obj, f, sn) ==
    IF ~HasSitesCache(obj)
    THEN LET o == SetAttr(obj, PrivSites, Rebuild(f, sn))
         IN  [obj |-> o, map |-> o[PrivSites]]
    ELSE [obj |-> obj, map |-> obj[PrivSites]]

Outcome(op, arg, exc, val, truth) ==
    [op |-> op, arg |-> arg, exc |-> exc, val |-> val, truth |-> truth]

\* __getitem__: self._sites[key], KeyError turned into BenchSiteNotLoadedError.
\* [obj, exc, val]
GetItemCall(obj, f, sn, key) ==
    LET r == SitesProp(obj, f, sn)
    IN  IF key \in DOMAIN r.map
        THEN [obj |-> r.obj, exc |-> "none", val |-> {r.map[key]}]
        ELSE [obj |-> r.obj, exc |-> "BenchSiteNotLoadedError", val |-> {}]

\* the site property
SiteCall_sentinelPasses(obj, f, sn) ==
    IF sn = None
    THEN [obj |-> obj, exc |-> "BenchNotScopedError", val |-> {}]
    ELSE GetItemCall(obj, f, sn, sn)
SiteCall(obj, f, sn) ==
    IF sn = None \/ sn = SCOPE_ALL_SITES
    THEN [obj |-> obj, exc |-> "BenchNotScopedError", val |-> {}]
    ELSE GetItemCall(obj, f, sn, sn)

\* the scoped property
ScopedOf(sn) == sn # None /\ sn # SCOPE_ALL_SITES

NoMarks == <<"none", None>>

\* del self.__sites in scope()
Invalidate_kept(obj) == obj
Invalidate(obj) == DelAttr(obj, PrivSites)


\* ------------------------------------------- ConfigHandler and Site.config
\* Configuration files are flat JSON objects: string keys, JSON values.
ConfigKeys == {"a", "b"}
ConfigValues == {1, 2}
Configs == UNION {[ks -> ConfigValues] : ks \in SUBSET ConfigKeys}

\* The Site objects a caller holds: two objects built for one site directory
\* (every lookup builds a new Site object, each with its own ConfigHandler
\* over the same site_config.json).
Tenants == {"T1", "T2"}

\* An attribute that may not be set yet: no value, or one.
Unset == {}
Some(v) == {v}
The(opt) == CHOOSE v \in opt : TRUE

\* A ConfigHandler: the mapping loaded last (Unset before the first load) and
\* the staleness flag.
ConfigHandlerInit == [loaded |-> Unset, stale |-> FALSE]

\* ConfigHandler.config: load on first access or when stale, then not stale.
ConfigLoad(store, file) ==
    IF store.loaded = Unset \/ store.stale
    THEN [loaded |-> Some(file), stale |-> FALSE]
    ELSE store

ConfigType(c) == [k \in DOMAIN c |-> c[k]]

\* config = sites.config.copy(); config.update(site_config)
MergedConfig_commonWins(common_config, site_config) ==
    [k \in (DOMAIN common_config) \cup (DOMAIN site_config) |->
        IF k \in DOMAIN common_config THEN common_config[k] ELSE site_config[k]]
MergedConfig(common_config, site_config) ==
    [k \in (DOMAIN common_config) \cup (DOMAIN site_config) |->
        IF k \in DOMAIN site_config THEN site_config[k] ELSE common_config[k]]

\* The test that opens Site.config.
MustMerge(t) ==
    combined[t] = Unset \/ site_store[t].stale \/ sites_store.stale

\* The variables of the configuration part when only the registry is exercised.
ConfigIdle ==
    /\ common_file = EmptyDict
    /\ site_file = EmptyDict
    /\ sites_store = ConfigHandlerInit
    /\ site_store = [t \in Tenants |-> ConfigHandlerInit]
    /\ combined = [t \in Tenants |-> Unset]
    /\ edits = 0


\* ------------------------------------------------------ Apps and Apps.App
AppNames == {"frappe", "erpnext"}
ModNames == {"stock"}

\* What apps/<name> is: a plain file; a directory without the package
\* directory apps/<name>/<name>; such a directory that holds a .frappe file
\* and the module directories at its own root; a directory whose package
\* directory (the App's python_path) has no .frappe file; one whose
\* python_path has it.
AppKinds == {"file", "dir", "marked_root", "package", "component"}
\* What <python_path>/<module> is: nothing, a plain file, a directory without
\* a .frappe file, a directory with it.
ModKinds == {"absent", "file", "dir", "component"}

\* `self.__apps` inside class Apps, `self.__modules` inside class App.
PrivApps == "_Apps__apps"
PrivModules == "_App__modules"

\* The App object whose modules are read.
HeldApp == "erpnext"

\* str.title() of the module names.
Title == [m \in ModNames |-> IF m = "stock" THEN "Stock" ELSE m]

\* FrappeComponent._is_frappe_component: python_path is a directory and
\* python_path/.frappe exists.
IsFrappeComponent_atRoot(kind) == kind = "marked_root"
IsFrappeComponent(kind) == kind = "component"

\* FrappeComponent.__bool__ of the App named n: [exc, truth].  The legacy
\* test reads sites/apps.txt, which fails when the file does not exist.
AppBool_unfiltered(dir, txt, n) == [exc |-> "none", truth |-> TRUE]
AppBool(dir, txt, n) ==
    IF IsFrappeComponent(dir[n]) THEN [exc |-> "none", truth |-> TRUE]
    ELSE IF txt = Unset THEN [exc |-> "FileNotFoundError", truth |-> FALSE]
    ELSE [exc |-> "none", truth |-> n \in The(txt)]

\* FrappeComponent.__bool__ of the Module named m of the held App.
ModuleBool(dir, txt, m) ==
    IF IsFrappeComponent(dir[m]) THEN [exc |-> "none", truth |-> TRUE]
    ELSE IF txt = Unset THEN [exc |-> "FileNotFoundError", truth |-> FALSE]
    ELSE [exc |-> "none", truth |-> Title[m] \in The(txt)]

IsDirApp(kind) == kind \in {"dir", "marked_root", "package", "component"}
IsDirMod(kind) == kind \in {"dir", "component"}

\* hasattr(self, "__apps") / hasattr(self, "__modules"): the unmangled names.
HasAppsCache(obj) == HasAttr(obj, "__apps")
HasModulesCache(obj) == HasAttr(obj, "__modules")

\* The variables of the apps part when it is not exercised.
AppsIdle ==
    /\ apps_dir = [n \in AppNames |-> "component"]
    /\ apps_txt = Unset
    /\ apps_obj = NoAttrs
    /\ apps_scans = 0
    /\ mods_dir = [m \in ModNames |-> "component"]
    /\ modules_txt = Unset
    /\ app_obj = NoAttrs
    /\ mods_scans = 0


\* ------------------------------------------------------ BenchPathResolver
Kinds == {"Bench", "Apps", "Sites", "Logs", "Run"}

\* self.__class__.__name__.upper() and .lower()
Upper == [k \in Kinds |->
            CASE k = "Bench" -> "BENCH" [] k = "Apps" -> "APPS" [] k = "Sites" -> "SITES"
              [] k = "Logs" -> "LOGS" [] k = "Run" -> "RUN"]
Lower == [k \in Kinds |->
            CASE k = "Bench" -> "bench" [] k = "Apps" -> "apps" [] k = "Sites" -> "sites"
              [] k = "Logs" -> "logs" [] k = "Run" -> "run"]

\* The environment variables the resolver may find; None: not set.
EnvNames == {"FRAPPE_BENCH_PATH", "FRAPPE_APPS_PATH", "FRAPPE_SITES_PATH",
             "FRAPPE_LOGS_PATH", "FRAPPE_RUN_PATH", "FRAPPE_BENCH_ROOT"}
EnvValues == {None, "", "/override"}
RootValues == {None, "/legacy-root"}
Environs ==
    {[n \in EnvNames |-> IF n = "FRAPPE_BENCH_ROOT" THEN r ELSE IF n = name THEN v ELSE None] :
        name \in EnvNames \ {"FRAPPE_BENCH_ROOT"}, v \in EnvValues, r \in RootValues}
ExplicitPaths == {None, "", "/explicit"}
ParentPaths == {None, "/parent"}

\* Path(__file__).resolve().parents[3]
StandardLayoutRoot == "/standard-layout"

\* Python's truth value of an optional string, and `a or b`.
Falsy(v) == v = None \/ v = ""
Or(a, b) == IF Falsy(a) THEN b ELSE a

\* Path.joinpath
JoinPath(parent, leaf) == parent \o "/" \o leaf

\* BenchPathResolver.__init__ for an object of class kind: [exc, path].
BenchPathResolverInit_parentFirst(kind, path, environ, parent_path) ==
    LET first == Or(path,
                    Or(IF parent_path # None THEN JoinPath(parent_path, Lower[kind]) ELSE None,
                       environ["FRAPPE_" \o Upper[kind] \o "_PATH"]))
        final == IF Falsy(first) /\ kind = "Bench"
                 THEN Or(environ["FRAPPE_BENCH_ROOT"], StandardLayoutRoot)
                 ELSE first
    IN  IF final = None THEN [exc |-> "ValueError", path |-> None]
        ELSE [exc |-> "none", path |-> final]
BenchPathResolverInit(kind, path, environ, parent_path) ==
    LET first == Or(path,
                    Or(environ["FRAPPE_" \o Upper[kind] \o "_PATH"],
                       IF parent_path # None THEN JoinPath(parent_path, Lower[kind]) ELSE None))
        final == IF Falsy(first) /\ kind = "Bench"
                 THEN Or(environ["FRAPPE_BENCH_ROOT"], StandardLayoutRoot)
                 ELSE first
    IN  IF final = None THEN [exc |-> "ValueError", path |-> None]
        ELSE [exc |-> "none", path |-> final]

\* Run.__init__: the legacy directory name goes in as the explicit path.
RunInit(path, environ, parent_path) ==
    BenchPathResolverInit("Run",
        Or(path, IF parent_path # None THEN JoinPath(parent_path, "config") ELSE None),
        environ, parent_path)

NoEnviron == [n \in EnvNames |-> None]
Construction(kind, path, environ, parent_path, r) ==
    [kind |-> kind, explicit |-> path, environ |-> environ, parent |-> parent_path,
     exc |-> r.exc, path |-> r.path]

PathsIdle ==
    resolved = Construction("none", None, NoEnviron, None, [exc |-> "none", path |-> None])

\* ------------------------------------- several Sites instances, one execution
RegIds == {"R1", "R2"}

\* A Sites instance: constructed or not, its attribute dictionary, and the
\* default_site of its common_site_config.json (None: no such key).
NoRegistry == [built |-> FALSE, obj |-> NoAttrs, default_site |-> None]
NewRegistry(default) == [built |-> TRUE, obj |-> NoAttrs, default_site |-> default]

\* os.environ.get("FRAPPE_SITE") or self.config.get("default_site"): the value
\* Sites.__init__ assigns, whatever the identifier was before.
SeedIdentifier_keepCurrent(env, default, current) ==
    IF current # None THEN current ELSE IF env # None THEN env ELSE default
SeedIdentifier(env, default, current) ==
    IF env # None THEN env ELSE default

RegsIdle ==
    /\ regs = [r \in RegIds |-> NoRegistry]
    /\ env_site = None
    /\ ident_log = <<"none", None, None>>

\* ------------------------------------------- executions sharing a registry
\* The call an execution is in: where it stands, the operation, the key it
\* looks up (None: the whole mapping) and the paths _process has yet to store.
NoFrame == [pc |-> "idle", op |-> "none", key |-> None, todo |-> {}]

\* Both executions are scoped, to different site directories.
BothScoped(f, sn) ==
    /\ \A e \in Execs : sn[e] \in SiteNames /\ IsSiteDir(f, sn[e])
    /\ \A e, g \in Execs : e # g => sn[e] # sn[g]

\* Both are scoped and no execution other than e is inside scope().
Settled(e, sn) ==
    /\ BothScoped(fs, sn)
    /\ \A g \in Execs \ {e} : frame[g].op # "scope"

\* What a call makes of the dictionary d that _sites returned.
ResultOf(fr, d) ==
    IF fr.key = None THEN Outcome(fr.op, None, "none", DictValues(d), FALSE)
    ELSE IF fr.key \in DOMAIN d
    THEN Outcome(fr.op, fr.key, "none", {d[fr.key]}, FALSE)
    ELSE Outcome(fr.op, fr.key, "BenchSiteNotLoadedError", {}, FALSE)

\* The paths of a rebuild under identifier sn that _process stores.
StoreTargets(f, sn) == {t \in ScanTargets(f, sn) : IsSiteDir(f, t)}

ConcIdle ==
    /\ frame = [e \in Execs |-> NoFrame]
    /\ steady = [e \in Execs |-> FALSE]
    /\ actor = Main

InitSites ==
    /\ fs \in [SiteNames -> EntryKinds]
    /\ sites_obj = NoAttrs
    /\ \E seed \in SiteNames \cup {None} :
           site_name = [e \in Execs |-> IF e = Main THEN seed ELSE None]
    /\ last = Outcome("init", None, "none", {}, FALSE)
    /\ scope_log = <<None, None>>
    /\ marks = NoMarks
    /\ ConfigIdle
    /\ AppsIdle
    /\ ConcIdle
    /\ PathsIdle
    /\ RegsIdle

\* scope(site_name)
Scope_atomic(e, arg) ==
    /\ arg \in SiteNames \cup {SCOPE_ALL_SITES, None}
    /\ LET sn == IF arg = None THEN GetSiteName(e) ELSE arg
           r == SiteCall(sites_obj, fs, sn)
       IN  /\ last' = Outcome("scope", arg, r.exc, r.val, FALSE)
           /\ IF r.exc = "none"
              THEN sites_obj' = r.obj /\ site_name' = SetSiteName(e, sn)
              ELSE UNCHANGED <<sites_obj, site_name>>
    /\ scope_log' = IF arg = None THEN scope_log ELSE <<scope_log[2], arg>>
    /\ marks' = NoMarks
    /\ UNCHANGED <<fs, configVars, appsVars, concVars, pathVars, regVars>>
Scope(e, arg) ==
    /\ arg \in SiteNames \cup {SCOPE_ALL_SITES, None}
    /\ IF arg = None
       THEN LET r == SiteCall(sites_obj, fs, GetSiteName(e))
            IN  /\ sites_obj' = r.obj
                /\ last' = Outcome("scope", arg, r.exc, r.val, FALSE)
                /\ UNCHANGED <<site_name, scope_log>>
       ELSE IF ~HasAttr(sites_obj, PrivSites)
       THEN /\ last' = Outcome("scope", arg, "AttributeError", {}, FALSE)
            /\ scope_log' = <<scope_log[2], arg>>
            /\ UNCHANGED <<sites_obj, site_name>>
       ELSE LET o == Invalidate(sites_obj)
                r == SiteCall(o, fs, arg)
            IN  /\ site_name' = SetSiteName(e, arg)
                /\ scope_log' = <<scope_log[2], arg>>
                /\ IF arg # SCOPE_ALL_SITES
                   THEN /\ sites_obj' = r.obj
                        /\ last' = Outcome("scope", arg, r.exc, r.val, FALSE)
                   ELSE /\ sites_obj' = o
                        /\ last' = Outcome("scope", arg, "BenchNotScopedError", {}, FALSE)
    /\ marks' = NoMarks
    /\ UNCHANGED <<fs, configVars, appsVars, concVars, pathVars, regVars>>

\* the site property read
ReadSite(e) ==
    LET r == SiteCall(sites_obj, fs, GetSiteName(e))
    IN  /\ sites_obj' = r.obj
        /\ last' = Outcome("site", None, r.exc, r.val, FALSE)
        /\ UNCHANGED <<fs, site_name, scope_log, marks, configVars, appsVars, concVars, pathVars, regVars>>

\* the scoped property read
ReadScoped(e) ==
    /\ last' = Outcome("scoped", None, "none", {}, ScopedOf(GetSiteName(e)))
    /\ UNCHANGED <<fs, sites_obj, site_name, scope_log, marks, configVars, appsVars, concVars, pathVars, regVars>>

\* registry[key]
GetItem(e, key) ==
    LET r == GetItemCall(sites_obj, fs, GetSiteName(e), key)
    IN  /\ sites_obj' = r.obj
        /\ last' = Outcome("getitem", key, r.exc, r.val, FALSE)
        /\ UNCHANGED <<fs, site_name, scope_log, marks, configVars, appsVars, concVars, pathVars, regVars>>

\* iter(registry)
Iter(e) ==
    LET sn == GetSiteName(e)
    IN  /\ IF sn = SCOPE_ALL_SITES
           THEN LET r == SitesProp(sites_obj, fs, sn)
                IN  /\ sites_obj' = r.obj
                    /\ last' = Outcome("iter", None, "none", DictValues(r.map), FALSE)
           ELSE IF sn # None
           THEN LET r == GetItemCall(sites_obj, fs, sn, sn)
                IN  /\ sites_obj' = r.obj
                    /\ last' = Outcome("iter", None, r.exc, r.val, FALSE)
           ELSE /\ last' = Outcome("iter", None, "BenchNotScopedError", {}, FALSE)
                /\ UNCHANGED sites_obj
        /\ UNCHANGED <<fs, site_name, scope_log, marks, configVars, appsVars, concVars, pathVars, regVars>>

\* len(registry)
LenCall(e) ==
    LET r == SitesProp(sites_obj, fs, GetSiteName(e))
    IN  /\ sites_obj' = r.obj
        /\ last' = Outcome("len", None, "none", DictValues(r.map), FALSE)
        /\ UNCHANGED <<fs, site_name, scope_log, marks, configVars, appsVars, concVars, pathVars, regVars>>

\* add_site(name): mkdir(parents, exist_ok) of the skeleton under sites/name,
\* then self.__sites[name] = Site(...).
AddSite(e, n) ==
    /\ n \in SiteNames
    /\ IF fs[n] = "file"
       THEN /\ last' = Outcome("add_site", n, "OSError", {}, FALSE)
            /\ UNCHANGED <<fs, sites_obj, marks>>
       ELSE /\ fs' = [fs EXCEPT ![n] = IF @ = "absent" THEN "dir" ELSE @]
            /\ IF ~HasAttr(sites_obj, PrivSites)
               THEN /\ last' = Outcome("add_site", n, "AttributeError", {}, FALSE)
                    /\ UNCHANGED <<sites_obj, marks>>
               ELSE /\ sites_obj' = SetAttr(sites_obj, PrivSites,
                           DictPut(sites_obj[PrivSites], n, Site(n, GetSiteName(e))))
                    /\ last' = Outcome("add_site", n, "none", {}, FALSE)
                    /\ marks' = <<"added", n>>
    /\ UNCHANGED <<site_name, scope_log, configVars, appsVars, concVars, pathVars, regVars>>

\* remove_site(name)
RemoveSite(e, n) ==
    /\ n \in SiteNames
    /\ IF ~HasAttr(sites_obj, PrivSites)
       THEN /\ last' = Outcome("remove_site", n, "AttributeError", {}, FALSE)
            /\ UNCHANGED <<sites_obj, marks>>
       ELSE /\ sites_obj' = IF n \in DOMAIN sites_obj[PrivSites]
                            THEN SetAttr(sites_obj, PrivSites, DictDel(sites_obj[PrivSites], n))
                            ELSE sites_obj
            /\ last' = Outcome("remove_site", n, "none", {}, FALSE)
            /\ marks' = <<"removed", n>>
    /\ UNCHANGED <<fs, site_name, scope_log, configVars, appsVars, concVars, pathVars, regVars>>

Next ==
    \/ \E arg \in SiteNames \cup {SCOPE_ALL_SITES, None} : Scope(Main, arg)
    \/ ReadSite(Main)
    \/ ReadScoped(Main)
    \/ \E key \in SiteNames : GetItem(Main, key)
    \/ Iter(Main)
    \/ LenCall(Main)
    \/ \E n \in SiteNames : AddSite(Main, n)
    \/ \E n \in SiteNames : RemoveSite(Main, n)

Init == InitSites

Spec == Init /\ [][Next]_vars

\* ================================================== Site.config (SpecConfig)
\* Two Site objects and their Sites registry; the registry part stays idle.
SitesIdle ==
    /\ fs = [n \in SiteNames |-> "site"]
    /\ sites_obj = NoAttrs
    /\ site_name = [e \in Execs |-> None]
    /\ scope_log = <<None, None>>
    /\ marks = NoMarks

\* Sites.__init__ reads self.config (to find default_site) unless FRAPPE_SITE
\* is set, so the installation-wide handler starts loaded or not.
InitConfig ==
    /\ SitesIdle
    /\ common_file \in Configs
    /\ site_file \in Configs
    /\ sites_store \in {ConfigHandlerInit, ConfigLoad(ConfigHandlerInit, common_file)}
    /\ site_store = [t \in Tenants |-> ConfigHandlerInit]
    /\ combined = [t \in Tenants |-> Unset]
    /\ edits = 0
    /\ AppsIdle
    /\ ConcIdle
    /\ PathsIdle
    /\ RegsIdle
    /\ last = Outcome("init", None, "none", {}, FALSE)

\* Site.config of the Site object t.  last.truth tells whether it merged.
ReadConfig(t) ==
    /\ IF MustMerge(t)
       THEN LET own == ConfigLoad(site_store[t], site_file)
                common == ConfigLoad(sites_store, common_file)
            IN  /\ site_store' = [site_store EXCEPT ![t] = own]
                /\ sites_store' = common
                /\ combined' = [combined EXCEPT
                       ![t] = Some(ConfigType(MergedConfig(The(common.loaded), The(own.loaded))))]
                /\ last' = Outcome("config", t, "none", {}, TRUE)
       ELSE /\ last' = Outcome("config", t, "none", {}, FALSE)
            /\ UNCHANGED <<site_store, sites_store, combined>>
    /\ UNCHANGED <<common_file, site_file, edits, sitesVars, appsVars, concVars, pathVars, regVars>>

\* bench.sites.config read by a caller.
ReadSitesConfig ==
    /\ sites_store' = ConfigLoad(sites_store, common_file)
    /\ last' = Outcome("sites_config", None, "none", {}, FALSE)
    /\ UNCHANGED <<common_file, site_file, site_store, combined, edits, sitesVars, appsVars, concVars, pathVars, regVars>>

\* A handler is marked stale by its owner (after its file was written).
MarkSitesStale ==
    /\ sites_store' = [sites_store EXCEPT !.stale = TRUE]
    /\ last' = Outcome("mark_stale", None, "none", {}, FALSE)
    /\ UNCHANGED <<common_file, site_file, site_store, combined, edits, sitesVars, appsVars, concVars, pathVars, regVars>>

MarkSiteStale(t) ==
    /\ site_store' = [site_store EXCEPT ![t].stale = TRUE]
    /\ last' = Outcome("mark_stale", t, "none", {}, FALSE)
    /\ UNCHANGED <<common_file, site_file, sites_store, combined, edits, sitesVars, appsVars, concVars, pathVars, regVars>>

\* The files change on disk.
WriteCommonFile(c) ==
    /\ edits < MaxEdits
    /\ c # common_file
    /\ common_file' = c
    /\ edits' = edits + 1
    /\ last' = Outcome("write", None, "none", {}, FALSE)
    /\ UNCHANGED <<site_file, sites_store, site_store, combined, sitesVars, appsVars, concVars, pathVars, regVars>>

WriteSiteFile(c) ==
    /\ edits < MaxEdits
    /\ c # site_file
    /\ site_file' = c
    /\ edits' = edits + 1
    /\ last' = Outcome("write", "site", "none", {}, FALSE)
    /\ UNCHANGED <<common_file, sites_store, site_store, combined, sitesVars, appsVars, concVars, pathVars, regVars>>

NextConfig ==
    \/ \E t \in Tenants : ReadConfig(t)
    \/ ReadSitesConfig
    \/ MarkSitesStale
    \/ \E t \in Tenants : MarkSiteStale(t)
    \/ \E c \in Configs : WriteCommonFile(c)
    \/ \E c \in Configs : WriteSiteFile(c)

SpecConfig == InitConfig /\ [][NextConfig]_vars

\* C1: whenever Site.config merges the installation-wide config A with the
\* tenant's own config B, the merged config it returns has exactly the keys of
\* A and B, each key of B with B's value (also when A has the key) and each
\* key only in A with A's value.
C1_MergedConfigIsOverlay ==
    (last.op = "config" /\ last.truth) =>
        LET A == The(sites_store.loaded)
            B == The(site_store[last.arg].loaded)
            M == The(combined[last.arg])
        IN  /\ DOMAIN M = (DOMAIN A) \cup (DOMAIN B)
            /\ \A k \in DOMAIN B : M[k] = B[k]
            /\ \A k \in (DOMAIN A) \ (DOMAIN B) : M[k] = A[k]

\* A merge of A = {a: 1, b: 1} with B = {b: 2} has been read: {a: 1, b: 2}.
C1_Witness ==
    /\ last.op = "config" /\ last.truth
    /\ sites_store.loaded = Some([k \in {"a", "b"} |-> 1])
    /\ site_store[last.arg].loaded = Some([k \in {"b"} |-> 2])
    /\ combined[last.arg] = Some([k \in {"a", "b"} |-> IF k = "a" THEN 1 ELSE 2])

\* C11: after the installation-wide store or a tenant's own store was marked
\* stale, the next config read of every Site object holding a cached merge
\* recomputes it: what a config read returns is the overlay of the data the
\* two stores hold now, never an older cached merge.
C11_ReadReflectsReloadedStores ==
    (last.op = "config") =>
        The(combined[last.arg]) =
            MergedConfig(The(sites_store.loaded), The(site_store[last.arg].loaded))


\* The names of the tenants in a result.
TenantNames(val) == {t.name : t \in val}

\* ============================== two executions, one registry (SpecConc)
\* The steps are the accesses to the attribute dictionary of the shared Sites
\* instance; what an execution does to its own identifier and locals between
\* two such accesses is part of the step.
InitConc ==
    /\ fs \in [SiteNames -> {"dir", "site"}]
    /\ sites_obj = NoAttrs
    /\ \E seed \in SiteNames \cup {None} :
           site_name = [e \in Execs |-> IF e = Main THEN seed ELSE None]
    /\ last = Outcome("init", None, "none", {}, FALSE)
    /\ scope_log = <<None, None>>
    /\ marks = NoMarks
    /\ ConfigIdle
    /\ AppsIdle
    /\ ConcIdle
    /\ PathsIdle
    /\ RegsIdle

\* The call of execution e ends with outcome o.
Finish(e, o) ==
    /\ frame' = [frame EXCEPT ![e] = NoFrame]
    /\ last' = o

\* _sites, first access: self.__sites = {} (hasattr(self, "__sites") is false).
EnterSites(e, op, key) ==
    /\ sites_obj' = SetAttr(sites_obj, PrivSites, EmptyDict)
    /\ frame' = [frame EXCEPT ![e] = [pc |-> "scan", op |-> op, key |-> key,
                     todo |-> StoreTargets(fs, GetSiteName(e))]]
    /\ UNCHANGED last

\* scope(arg), up to `del self.__sites` and the identifier's assignment.
CallScope(e, arg) ==
    /\ frame[e].pc = "idle"
    /\ arg \in SiteNames \cup {SCOPE_ALL_SITES}
    /\ IF ~HasAttr(sites_obj, PrivSites)
       THEN /\ Finish(e, Outcome("scope", arg, "AttributeError", {}, FALSE))
            /\ steady' = [steady EXCEPT ![e] = FALSE]
            /\ UNCHANGED <<sites_obj, site_name>>
       ELSE /\ sites_obj' = Invalidate(sites_obj)
            /\ site_name' = SetSiteName(e, arg)
            /\ steady' = [g \in Execs |-> g = e /\ Settled(e, site_name')]
            /\ IF arg = SCOPE_ALL_SITES
               THEN Finish(e, Outcome("scope", arg, "BenchNotScopedError", {}, FALSE))
               ELSE /\ frame' = [frame EXCEPT ![e] = [pc |-> "enter", op |-> "scope",
                                    key |-> arg, todo |-> {}]]
                    /\ UNCHANGED last
    /\ UNCHANGED <<fs, scope_log, marks, configVars, appsVars, pathVars, regVars>>

\* scope(arg) goes on to self.site, which enters _sites.
Enter(e) ==
    /\ frame[e].pc = "enter"
    /\ EnterSites(e, frame[e].op, frame[e].key)
    /\ UNCHANGED <<fs, site_name, steady, scope_log, marks, configVars, appsVars, pathVars, regVars>>

\* the site property, up to the first access of _sites
CallSite(e) ==
    /\ frame[e].pc = "idle"
    /\ steady' = [steady EXCEPT ![e] = Settled(e, site_name)]
    /\ IF ~ScopedOf(GetSiteName(e))
       THEN /\ Finish(e, Outcome("site", None, "BenchNotScopedError", {}, FALSE))
            /\ UNCHANGED sites_obj
       ELSE EnterSites(e, "site", GetSiteName(e))
    /\ UNCHANGED <<fs, site_name, scope_log, marks, configVars, appsVars, pathVars, regVars>>

\* registry[key], up to the first access of _sites
CallGetItem(e, key) ==
    /\ frame[e].pc = "idle"
    /\ key \in SiteNames
    /\ steady' = [steady EXCEPT ![e] = Settled(e, site_name)]
    /\ EnterSites(e, "getitem", key)
    /\ UNCHANGED <<fs, site_name, scope_log, marks, configVars, appsVars, pathVars, regVars>>

\* iter(registry), up to the first access of _sites
CallIter(e) ==
    /\ frame[e].pc = "idle"
    /\ steady' = [steady EXCEPT ![e] = Settled(e, site_name)]
    /\ IF GetSiteName(e) = SCOPE_ALL_SITES
       THEN EnterSites(e, "iter", None)
       ELSE IF GetSiteName(e) # None
       THEN EnterSites(e, "iter", GetSiteName(e))
       ELSE /\ Finish(e, Outcome("iter", None, "BenchNotScopedError", {}, FALSE))
            /\ UNCHANGED sites_obj
    /\ UNCHANGED <<fs, site_name, scope_log, marks, configVars, appsVars, pathVars, regVars>>

\* _process(path): self.__sites[path.name] = Site(...)
Store(e) ==
    /\ frame[e].pc = "scan"
    /\ \E n \in frame[e].todo :
           IF ~HasAttr(sites_obj, PrivSites)
           THEN /\ Finish(e, Outcome(frame[e].op, frame[e].key, "AttributeError", {}, FALSE))
                /\ UNCHANGED sites_obj
           ELSE /\ sites_obj' = SetAttr(sites_obj, PrivSites,
                       DictPut(sites_obj[PrivSites], n, Site(n, GetSiteName(e))))
                /\ frame' = [frame EXCEPT ![e].todo = @ \ {n}]
                /\ UNCHANGED last
    /\ UNCHANGED <<fs, site_name, steady, scope_log, marks, configVars, appsVars, pathVars, regVars>>

\* return self.__sites, and what the caller does with the dictionary
Return(e) ==
    /\ frame[e].pc = "scan"
    /\ frame[e].todo = {}
    /\ IF ~HasAttr(sites_obj, PrivSites)
       THEN Finish(e, Outcome(frame[e].op, frame[e].key, "AttributeError", {}, FALSE))
       ELSE Finish(e, ResultOf(frame[e], sites_obj[PrivSites]))
    /\ UNCHANGED <<fs, sites_obj, site_name, steady, scope_log, marks, configVars, appsVars, pathVars, regVars>>

NextConc ==
    \E e \in Execs :
        /\ actor' = e
        /\ \/ \E arg \in SiteNames \cup {SCOPE_ALL_SITES} : CallScope(e, arg)
           \/ Enter(e)
           \/ CallSite(e)
           \/ \E key \in SiteNames : CallGetItem(e, key)
           \/ CallIter(e)
           \/ Store(e)
           \/ Return(e)

SpecConc == InitConc /\ [][NextConc]_vars

\* C5: while both executions are scoped, to different discoverable sites, a
\* `site` read or a lookup of its own name that an execution completes
\* returns the tenant of that name, whatever the other execution did to the
\* shared registry in between.
C5_OwnTenantUnderInterleaving ==
    [][\A e \in Execs :
          (/\ actor' = e
           /\ frame[e].pc = "scan" /\ frame'[e].pc = "idle"
           /\ frame[e].op \in {"site", "getitem"}
           /\ frame[e].key = site_name[e]
           /\ steady[e] /\ BothScoped(fs, site_name))
          => (last'.exc = "none" /\ TenantNames(last'.val) = {site_name[e]})]_vars

\* C6: a step of one execution, the identifier's assignment in scope()
\* included, never changes the identifier or the `scoped` value that
\* another execution reads.
C6_IdentifierIsPerExecution ==
    [][\A g \in Execs \ {actor'} :
          /\ GetSiteName(g)' = GetSiteName(g)
          /\ ScopedOf(GetSiteName(g))' = ScopedOf(GetSiteName(g))]_vars

\* Both executions are scoped, to different sites, the second by a scope()
\* that has just returned its tenant.
C6_Witness ==
    /\ BothScoped(fs, site_name)
    /\ actor # Main
    /\ last.op = "scope" /\ last.exc = "none"
    /\ TenantNames(last.val) = {site_name[actor]}


\* ================================================ path resolution (SpecPaths)
InitPaths ==
    /\ SitesIdle
    /\ ConfigIdle
    /\ AppsIdle
    /\ ConcIdle
    /\ PathsIdle
    /\ RegsIdle
    /\ last = Outcome("init", None, "none", {}, FALSE)

\* Bench(path)
ConstructBench(path, environ) ==
    LET r == BenchPathResolverInit("Bench", path, environ, None)
    IN  /\ resolved' = Construction("Bench", path, environ, None, r)
        /\ last' = Outcome("construct", "Bench", r.exc, {}, FALSE)
        /\ UNCHANGED <<sitesVars, configVars, appsVars, concVars, regVars>>

\* Run(path=..., parent_path=...)
ConstructRun(path, environ, parent_path) ==
    LET r == RunInit(path, environ, parent_path)
    IN  /\ resolved' = Construction("Run", path, environ, parent_path, r)
        /\ last' = Outcome("construct", "Run", r.exc, {}, FALSE)
        /\ UNCHANGED <<sitesVars, configVars, appsVars, concVars, regVars>>

\* Apps(path, parent_path), Sites(path=..., parent_path=...), Logs(...)
ConstructEntity(kind, path, environ, parent_path) ==
    /\ kind \in {"Apps", "Sites", "Logs"}
    /\ LET r == BenchPathResolverInit(kind, path, environ, parent_path)
       IN  /\ resolved' = Construction(kind, path, environ, parent_path, r)
           /\ last' = Outcome("construct", kind, r.exc, {}, FALSE)
    /\ UNCHANGED <<sitesVars, configVars, appsVars, concVars, regVars>>

NextPaths ==
    \E path \in ExplicitPaths, environ \in Environs, parent_path \in ParentPaths :
        \/ ConstructBench(path, environ)
        \/ ConstructRun(path, environ, parent_path)
        \/ \E kind \in Kinds : ConstructEntity(kind, path, environ, parent_path)

SpecPaths == InitPaths /\ [][NextPaths]_vars

\* C18: for every kind the path is the first non-empty of the explicit
\* argument, the environment variable FRAPPE_<KIND>_PATH, parent_path joined
\* with the lower-cased kind, and (Bench only) the installation-root
\* fallback; construction fails when none of them yields a path.
C18_FirstNonEmptySourceWins ==
    (resolved.kind \in Kinds) =>
        LET k == resolved.kind
            override == resolved.environ["FRAPPE_" \o Upper[k] \o "_PATH"]
            derived == IF resolved.parent # None
                       THEN resolved.parent \o "/" \o Lower[k] ELSE None
            fallback == IF k = "Bench"
                        THEN Or(resolved.environ["FRAPPE_BENCH_ROOT"], StandardLayoutRoot)
                        ELSE None
            chosen == Or(resolved.explicit, Or(override, Or(derived, fallback)))
        IN  IF Falsy(chosen) THEN resolved.exc = "ValueError"
            ELSE resolved.exc = "none" /\ resolved.path = chosen

\* C18 as amended: the claimed order holds for Bench, Apps, Sites and Logs;
\* for Run the order is the explicit argument, then parent_path joined with
\* "config", then FRAPPE_RUN_PATH, so a supplied parent wins over the
\* override; construction fails when no source yields a path.
C18_FirstNonEmptySourceWinsButRun ==
    (resolved.kind \in Kinds) =>
        LET k == resolved.kind
            override == resolved.environ["FRAPPE_" \o Upper[k] \o "_PATH"]
            derived == IF resolved.parent # None
                       THEN resolved.parent \o "/" \o (IF k = "Run" THEN "config" ELSE Lower[k])
                       ELSE None
            fallback == IF k = "Bench"
                        THEN Or(resolved.environ["FRAPPE_BENCH_ROOT"], StandardLayoutRoot)
                        ELSE None
            chosen == IF k = "Run"
                      THEN Or(resolved.explicit, Or(derived, override))
                      ELSE Or(resolved.explicit, Or(override, Or(derived, fallback)))
        IN  IF Falsy(chosen) THEN resolved.exc = "ValueError"
            ELSE resolved.exc = "none" /\ resolved.path = chosen

\* A Sites was constructed without an explicit path, with its override set
\* and a parent supplied: its path is the override.
C18_Witness ==
    /\ resolved.kind = "Sites"
    /\ Falsy(resolved.explicit)
    /\ resolved.environ["FRAPPE_SITES_PATH"] = "/override"
    /\ resolved.parent = "/parent"
    /\ resolved.exc = "none" /\ resolved.path = "/override"

\* ============================= Sites instances of one execution (SpecRegs)
\* R1 has been constructed (by a Bench); R2 may be constructed later.
InitRegs ==
    /\ fs \in [SiteNames -> {"dir", "site"}]
    /\ sites_obj = NoAttrs
    /\ scope_log = <<None, None>>
    /\ marks = NoMarks
    /\ env_site \in SiteNames \cup {None}
    /\ \E default \in SiteNames \cup {None} :
           /\ regs = [r \in RegIds |-> IF r = "R1" THEN NewRegistry(default) ELSE NoRegistry]
           /\ site_name = [e \in Execs |->
                  IF e = Main THEN SeedIdentifier(env_site, default, None) ELSE None]
           /\ ident_log = <<"construct", "R1", SeedIdentifier(env_site, default, None)>>
    /\ ConfigIdle
    /\ AppsIdle
    /\ ConcIdle
    /\ PathsIdle
    /\ last = Outcome("init", None, "none", {}, FALSE)

\* Sites(bench=..., ...) for r, also as part of Bench(...).
ConstructSites(r, default) ==
    LET seed == SeedIdentifier(env_site, default, GetSiteName(Main))
    IN  /\ regs' = [regs EXCEPT ![r] = NewRegistry(default)]
        /\ site_name' = SetSiteName(Main, seed)
        /\ ident_log' = <<"construct", r, seed>>
        /\ last' = Outcome("construct", r, "none", {}, FALSE)
        /\ UNCHANGED <<fs, sites_obj, scope_log, marks, env_site,
                       configVars, appsVars, concVars, pathVars>>

\* len(r): a read that builds r's cache
LenOn(r) ==
    /\ regs[r].built
    /\ LET p == SitesProp(regs[r].obj, fs, GetSiteName(Main))
       IN  /\ regs' = [regs EXCEPT ![r].obj = p.obj]
           /\ last' = Outcome("len", r, "none", DictValues(p.map), FALSE)
    /\ UNCHANGED <<fs, sites_obj, site_name, scope_log, marks, env_site, ident_log,
                   configVars, appsVars, concVars, pathVars>>

\* r.scope(arg)
ScopeOn(r, arg) ==
    /\ regs[r].built
    /\ arg \in SiteNames \cup {SCOPE_ALL_SITES}
    /\ IF ~HasAttr(regs[r].obj, PrivSites)
       THEN /\ last' = Outcome("scope", r, "AttributeError", {}, FALSE)
            /\ UNCHANGED <<regs, site_name, ident_log>>
       ELSE LET o == Invalidate(regs[r].obj)
                c == SiteCall(o, fs, arg)
            IN  /\ site_name' = SetSiteName(Main, arg)
                /\ ident_log' = <<"scope", r, arg>>
                /\ IF arg # SCOPE_ALL_SITES
                   THEN /\ regs' = [regs EXCEPT ![r].obj = c.obj]
                        /\ last' = Outcome("scope", r, c.exc, c.val, FALSE)
                   ELSE /\ regs' = [regs EXCEPT ![r].obj = o]
                        /\ last' = Outcome("scope", r, "BenchNotScopedError", {}, FALSE)
    /\ UNCHANGED <<fs, sites_obj, scope_log, marks, env_site,
                   configVars, appsVars, concVars, pathVars>>

\* r.site_name and r.scoped read
ReadSiteName(r) ==
    /\ regs[r].built
    /\ last' = Outcome("site_name", r, "none", {GetSiteName(Main)}, ScopedOf(GetSiteName(Main)))
    /\ UNCHANGED <<sitesVars, regVars, configVars, appsVars, concVars, pathVars>>

NextRegs ==
    \E r \in RegIds :
        \/ \E default \in SiteNames \cup {None} : ConstructSites(r, default)
        \/ LenOn(r)
        \/ \E arg \in SiteNames \cup {SCOPE_ALL_SITES} : ScopeOn(r, arg)
        \/ ReadSiteName(r)

SpecRegs == InitRegs /\ [][NextRegs]_vars

\* C20: the identifier is one value per execution for all Sites instances:
\* any instance reads the value assigned last, through whichever instance
\* (after a scope(x) on R1, R2 reads x), and constructing an instance
\* overwrites it with FRAPPE_SITE, else the new instance's default_site, else
\* nothing.
C20_IdentifierSharedByRegistries ==
    [][/\ (last'.op = "site_name") => (last'.val = {ident_log[3]})
       /\ (last'.op = "construct") =>
              (GetSiteName(Main)' =
                  IF env_site # None THEN env_site
                  ELSE regs'[last'.arg].default_site)]_vars

\* R2 reads the name that a scope() on R1 has set.
C20_Witness ==
    /\ last.op = "site_name" /\ last.arg = "R2"
    /\ ident_log[1] = "scope" /\ ident_log[2] = "R1"
    /\ ident_log[3] \in SiteNames
    /\ last.val = {ident_log[3]}

\* ======================================================== Apps (SpecApps)
InitApps ==
    /\ SitesIdle
    /\ ConfigIdle
    /\ ConcIdle
    /\ PathsIdle
    /\ RegsIdle
    /\ apps_dir \in [AppNames -> AppKinds]
    /\ apps_txt \in {Unset} \cup {Some(S) : S \in SUBSET AppNames}
    /\ apps_obj = NoAttrs
    /\ apps_scans = 0
    /\ mods_dir \in [ModNames -> ModKinds]
    /\ modules_txt \in {Unset} \cup {Some(S) : S \in SUBSET {Title[m] : m \in ModNames}}
    /\ app_obj = NoAttrs
    /\ mods_scans = 0
    /\ last = Outcome("init", None, "none", {}, FALSE)

\* The apps property of the Apps instance.
ReadApps ==
    /\ apps_scans < MaxScans
    /\ IF ~HasAppsCache(apps_obj)
       THEN LET dirs == {n \in AppNames : IsDirApp(apps_dir[n])}
                failed == \E n \in dirs : AppBool(apps_dir, apps_txt, n).exc # "none"
                found == {n \in dirs : AppBool(apps_dir, apps_txt, n).truth}
            IN  /\ apps_scans' = apps_scans + 1
                /\ IF failed
                   THEN /\ last' = Outcome("apps", None, "FileNotFoundError", {}, FALSE)
                        /\ UNCHANGED apps_obj
                   ELSE /\ apps_obj' = SetAttr(apps_obj, PrivApps, found)
                        /\ last' = Outcome("apps", None, "none", found, FALSE)
       ELSE /\ last' = Outcome("apps", None, "none", apps_obj[PrivApps], FALSE)
            /\ UNCHANGED <<apps_obj, apps_scans>>
    /\ UNCHANGED <<apps_dir, apps_txt, mods_dir, modules_txt, app_obj, mods_scans,
                   sitesVars, configVars, concVars, pathVars, regVars>>

\* The modules property of the held App object.
ReadModules ==
    /\ mods_scans < MaxScans
    /\ IF ~HasModulesCache(app_obj)
       THEN LET dirs == {m \in ModNames : IsDirMod(mods_dir[m])}
                failed == \E m \in dirs : ModuleBool(mods_dir, modules_txt, m).exc # "none"
                found == {m \in dirs : ModuleBool(mods_dir, modules_txt, m).truth}
            IN  /\ mods_scans' = mods_scans + 1
                /\ IF apps_dir[HeldApp] \notin {"package", "component"}
                   THEN /\ last' = Outcome("modules", None, "OSError", {}, FALSE)
                        /\ UNCHANGED app_obj
                   ELSE IF failed
                   THEN /\ last' = Outcome("modules", None, "FileNotFoundError", {}, FALSE)
                        /\ UNCHANGED app_obj
                   ELSE /\ app_obj' = SetAttr(app_obj, PrivModules, found)
                        /\ last' = Outcome("modules", None, "none", found, FALSE)
       ELSE /\ last' = Outcome("modules", None, "none", app_obj[PrivModules], FALSE)
            /\ UNCHANGED <<app_obj, mods_scans>>
    /\ UNCHANGED <<apps_dir, apps_txt, apps_obj, apps_scans, mods_dir, modules_txt,
                   sitesVars, configVars, concVars, pathVars, regVars>>

\* The apps directory changes on disk.
ChangeApp(n, kind) ==
    /\ kind # apps_dir[n]
    /\ apps_dir' = [apps_dir EXCEPT ![n] = kind]
    /\ last' = Outcome("change", n, "none", {}, FALSE)
    /\ UNCHANGED <<apps_txt, apps_obj, apps_scans, mods_dir, modules_txt, app_obj,
                   mods_scans, sitesVars, configVars, concVars, pathVars, regVars>>

\* The held App's python_path changes on disk.
ChangeModule(m, kind) ==
    /\ kind # mods_dir[m]
    /\ mods_dir' = [mods_dir EXCEPT ![m] = kind]
    /\ last' = Outcome("change", m, "none", {}, FALSE)
    /\ UNCHANGED <<apps_dir, apps_txt, apps_obj, apps_scans, modules_txt, app_obj,
                   mods_scans, sitesVars, configVars, concVars, pathVars, regVars>>

NextApps ==
    \/ ReadApps
    \/ ReadModules
    \/ \E n \in AppNames, kind \in AppKinds : ChangeApp(n, kind)
    \/ \E m \in ModNames, kind \in ModKinds : ChangeModule(m, kind)

SpecApps == InitApps /\ [][NextApps]_vars

\* C7: on one Apps instance only the first read of `apps` scans the
\* directory, every later read returns the cached mapping without a scan;
\* likewise an App scans for its modules at most once.
C7_ScanAtMostOnce ==
    apps_scans <= 1 /\ mods_scans <= 1

\* ========================================================= claims on Spec
IsRead(op) == op \in {"getitem", "site", "iter", "len"}

\* C2: from every reachable registry state (a fresh registry whose cache was
\* never populated, and one whose previous call was scope(ALL), included),
\* scope(name) for a name whose directory holds site_config.json returns the
\* Tenant named name without error; afterwards `site` returns that Tenant and
\* `scoped` reads true.
C2_ScopeReturnsNamedTenant ==
    (last.op = "scope" /\ last.arg \in SiteNames /\ IsSiteDir(fs, last.arg)) =>
        /\ last.exc = "none"
        /\ TenantNames(last.val) = {last.arg}
        /\ ScopedOf(GetSiteName(Main))
        /\ LET r == SiteCall(sites_obj, fs, GetSiteName(Main))
           IN  r.exc = "none" /\ TenantNames(r.val) = {last.arg}

\* C3: after scope(x) followed by scope(y), x # y, no read (lookup, site,
\* length, iteration) returns a Tenant that was built while scoped to x.
C3_NoTenantOfPreviousScope ==
    LET x == scope_log[1]
        y == scope_log[2]
    IN  (x # None /\ y # None /\ x # y /\ IsRead(last.op)) =>
            \A t \in last.val : t.built_under # x

\* C4: after scope(ALL), iterating the registry yields exactly one Tenant for
\* each entry of the sites root that is a directory holding site_config.json,
\* and none for any other entry.
C4_IterAllYieldsExactlySiteDirs ==
    (scope_log[2] = SCOPE_ALL_SITES /\ last.op = "iter") =>
        /\ last.exc = "none"
        /\ TenantNames(last.val) = {n \in SiteNames : IsSiteDir(fs, n)}
        /\ Cardinality(last.val) = Cardinality(TenantNames(last.val))

\* C8: after remove_site(name) has returned, and until the next scope() or
\* add_site, registry[name] fails with BenchSiteNotLoadedError and iteration
\* yields no Tenant named name; remove_site leaves the directory as it was.
C8_RemovedStaysRemoved ==
    [][ /\ (last'.op = "remove_site" => fs' = fs)
        /\ (marks'[1] = "removed" /\ last'.op = "getitem" /\ last'.arg = marks'[2])
               => last'.exc = "BenchSiteNotLoadedError"
        /\ (marks'[1] = "removed" /\ last'.op = "iter")
               => marks'[2] \notin TenantNames(last'.val) ]_vars

\* C9: after add_site(name) has returned, with no scope() or remove_site in
\* between, registry[name] returns a Tenant named name.
C9_AddedIsLookedUp ==
    (marks[1] = "added" /\ last.op = "getitem" /\ last.arg = marks[2]) =>
        (last.exc = "none" /\ TenantNames(last.val) = {last.arg})

\* C10: add_site(name) succeeds in every registry state (unscoped, scoped to
\* one, scoped to all; cache populated or never populated) and leaves the
\* active identifier unchanged.  (A name that is a plain file on disk is a
\* matter of the file system, not of the registry state, and is left out.)
C10_AddSiteAlwaysSucceeds ==
    [][ (last'.op = "add_site" /\ fs[last'.arg] # "file")
            => (last'.exc = "none" /\ site_name' = site_name) ]_vars

\* C12: `site` and scope(None) raise BenchNotScopedError exactly when the
\* identifier is absent or the all-sentinel, and then change neither the
\* identifier nor the tenant cache; `scoped` reads true exactly when the
\* identifier is a single site name, that is, when `site` does not raise
\* BenchNotScopedError.
C12_NotScopedExactlyWhenUnscoped ==
    [][LET sn == GetSiteName(Main)
           unscoped == sn = None \/ sn = SCOPE_ALL_SITES
       IN  /\ (last'.op = "site" \/ (last'.op = "scope" /\ last'.arg = None)) =>
                 /\ (last'.exc = "BenchNotScopedError") <=> unscoped
                 /\ unscoped => (site_name' = site_name /\ sites_obj' = sites_obj)
           /\ (last'.op = "scoped") =>
                 /\ last'.truth <=> (sn \in SiteNames)
                 /\ last'.truth <=> (SiteCall(sites_obj, fs, sn).exc # "BenchNotScopedError")]_vars

\* `site` was read while scoped to all sites, and raised BenchNotScopedError.
C12_Witness ==
    /\ last.op = "site"
    /\ last.exc = "BenchNotScopedError"
    /\ GetSiteName(Main) = SCOPE_ALL_SITES
    /\ HasAttr(sites_obj, PrivSites)

\* C13: while scoped to one site x, registry[y] for another name y raises
\* BenchSiteNotLoadedError, also when sites/y holds a site_config.json (and
\* whether or not y was registered before), and the lookup leaves no tenant
\* y in the cache.
C13_LookupOutsideScopeFails ==
    [][(/\ last'.op = "getitem"
        /\ GetSiteName(Main) \in SiteNames
        /\ last'.arg # GetSiteName(Main))
       => (/\ last'.exc = "BenchSiteNotLoadedError"
           /\ last'.val = {}
           /\ last'.arg \notin DOMAIN sites_obj'[PrivSites])]_vars

\* Scoped to one site directory, the lookup of another site directory failed.
C13_Witness ==
    /\ last.op = "getitem"
    /\ last.exc = "BenchSiteNotLoadedError"
    /\ GetSiteName(Main) \in SiteNames
    /\ last.arg \in SiteNames \ {GetSiteName(Main)}
    /\ IsSiteDir(fs, last.arg)
    /\ IsSiteDir(fs, GetSiteName(Main))

\* C14: scope(SCOPE_ALL_SITES) invalidates the tenant cache, sets the
\* identifier to the sentinel and returns normally, raising no error and
\* resolving no single tenant.
C14_ScopeAllReturnsNormally ==
    [][(last'.op = "scope" /\ last'.arg = SCOPE_ALL_SITES)
       => (/\ last'.exc = "none"
           /\ last'.val = {}
           /\ GetSiteName(Main)' = SCOPE_ALL_SITES
           /\ ~HasAttr(sites_obj', PrivSites))]_vars

\* C15: with apps/erpnext holding the marker apps/erpnext/.frappe and the
\* subdirectory apps/erpnext/stock/, and no sites/apps.txt and no
\* modules.txt, apps["erpnext"] is found and so is its modules["stock"],
\* with no error raised.
C15_MarkerAtAppRootIsFound ==
    /\ (last.op = "apps" /\ apps_dir["erpnext"] = "marked_root" /\ apps_txt = Unset)
           => (last.exc = "none" /\ "erpnext" \in last.val)
    /\ (last.op = "modules" /\ apps_dir[HeldApp] = "marked_root"
            /\ apps_txt = Unset /\ modules_txt = Unset)
           => (last.exc = "none" /\ "stock" \in last.val)

\* C15 as amended: with the marker in the package directory
\* (apps/erpnext/erpnext/.frappe), the module directory inside it with its
\* own marker (apps/erpnext/erpnext/stock/.frappe), no other directory
\* beside them without its marker, and no manifests, apps["erpnext"] and
\* its modules["stock"] are found, with no error raised.
C15_MarkerInPackageIsFound ==
    /\ (/\ last.op = "apps" /\ apps_txt = Unset
        /\ apps_dir["erpnext"] = "component"
        /\ \A n \in AppNames : IsDirApp(apps_dir[n]) => apps_dir[n] = "component")
           => (last.exc = "none" /\ "erpnext" \in last.val)
    /\ (/\ last.op = "modules" /\ modules_txt = Unset
        /\ apps_dir[HeldApp] = "component"
        /\ mods_dir["stock"] = "component"
        /\ \A m \in ModNames : IsDirMod(mods_dir[m]) => mods_dir[m] = "component")
           => (last.exc = "none" /\ "stock" \in last.val)

\* Both reads have been made on that layout: erpnext is in the apps mapping
\* and stock has just been found among its modules.
C15_Witness ==
    /\ apps_txt = Unset /\ modules_txt = Unset
    /\ \A n \in AppNames : apps_dir[n] = "component"
    /\ mods_dir["stock"] = "component"
    /\ HasAttr(apps_obj, PrivApps) /\ "erpnext" \in apps_obj[PrivApps]
    /\ last.op = "modules" /\ last.exc = "none" /\ "stock" \in last.val

\* C16: iteration when no identifier is set raises BenchNotScopedError; when
\* scoped to one discoverable site x it yields exactly one tenant, named x,
\* and the discovery it triggers looks at sites/x only: no other entry of
\* the sites root gets into the mapping.
C16_IterationFollowsScope ==
    [][(last'.op = "iter") =>
          LET sn == GetSiteName(Main)
          IN  /\ (sn = None) =>
                    (/\ last'.exc = "BenchNotScopedError"
                     /\ sites_obj' = sites_obj)
              /\ (sn \in SiteNames /\ IsSiteDir(fs, sn)) =>
                    (/\ last'.exc = "none"
                     /\ Cardinality(last'.val) = 1
                     /\ TenantNames(last'.val) = {sn}
                     /\ DOMAIN sites_obj'[PrivSites] = {sn})]_vars

\* An iteration under the scope of one site directory has yielded its tenant
\* while the sites root holds another site directory.
C16_Witness ==
    /\ last.op = "iter" /\ last.exc = "none"
    /\ GetSiteName(Main) \in SiteNames
    /\ TenantNames(last.val) = {GetSiteName(Main)}
    /\ \E n \in SiteNames \ {GetSiteName(Main)} : IsSiteDir(fs, n)

\* C17: a read of apps (of an App's modules) maps every immediate
\* subdirectory of the scanned root to an entry and ignores the other
\* entries; no presence check is made during the scan, so no manifest is
\* read and a subdirectory that is not present is in the mapping too.
C17_EverySubdirectoryIsMapped ==
    /\ (last.op = "apps") =>
           (/\ last.exc = "none"
            /\ last.val = {n \in AppNames : IsDirApp(apps_dir[n])})
    /\ (last.op = "modules" /\ apps_dir[HeldApp] \in {"package", "component"}) =>
           (/\ last.exc = "none"
            /\ last.val = {m \in ModNames : IsDirMod(mods_dir[m])})

\* C17 as amended: the read maps exactly the immediate subdirectories that
\* are present (marker in python_path, or named by the legacy manifest) and
\* ignores the others and the non-directory entries; the presence check is
\* made during the scan, and when a subdirectory has no marker and the
\* manifest does not exist the read raises FileNotFoundError.
C17_PresentSubdirectoriesAreMapped ==
    /\ (last.op = "apps") =>
           LET dirs == {n \in AppNames : apps_dir[n] # "file"}
               marked == {n \in dirs : apps_dir[n] = "component"}
           IN  IF marked # dirs /\ apps_txt = Unset
               THEN last.exc = "FileNotFoundError"
               ELSE /\ last.exc = "none"
                    /\ last.val = marked \cup {n \in dirs \ marked : n \in The(apps_txt)}
    /\ (last.op = "modules" /\ apps_dir[HeldApp] \in {"package", "component"}) =>
           LET dirs == {m \in ModNames : mods_dir[m] \in {"dir", "component"}}
               marked == {m \in dirs : mods_dir[m] = "component"}
           IN  IF marked # dirs /\ modules_txt = Unset
               THEN last.exc = "FileNotFoundError"
               ELSE /\ last.exc = "none"
                    /\ last.val = marked \cup
                           {m \in dirs \ marked : Title[m] \in The(modules_txt)}

\* A read of apps has left out a directory that is neither marked nor listed
\* and kept another one.
C17_Witness ==
    /\ last.op = "apps" /\ last.exc = "none"
    /\ last.val # {}
    /\ \E n \in AppNames : IsDirApp(apps_dir[n]) /\ n \notin last.val

\* C14 as amended: scope(SCOPE_ALL_SITES) never returns normally.  When the
\* instance has its cache attribute, it deletes the cache, sets the
\* identifier to the sentinel and then raises BenchNotScopedError, resolving
\* no tenant; when it has none (fresh registry, or right after such a call)
\* it raises AttributeError and changes nothing.
C14_ScopeAllSetsThenRaises ==
    [][(last'.op = "scope" /\ last'.arg = SCOPE_ALL_SITES) =>
          /\ last'.val = {}
          /\ IF HasAttr(sites_obj, PrivSites)
             THEN /\ last'.exc = "BenchNotScopedError"
                  /\ GetSiteName(Main)' = SCOPE_ALL_SITES
                  /\ ~HasAttr(sites_obj', PrivSites)
             ELSE /\ last'.exc = "AttributeError"
                  /\ site_name' = site_name
                  /\ sites_obj' = sites_obj]_vars

\* scope(SCOPE_ALL_SITES) has just raised BenchNotScopedError, leaving the
\* identifier at the sentinel and the cache deleted.
C14_Witness ==
    /\ last.op = "scope" /\ last.arg = SCOPE_ALL_SITES
    /\ last.exc = "BenchNotScopedError"
    /\ GetSiteName(Main) = SCOPE_ALL_SITES
    /\ ~HasAttr(sites_obj, PrivSites)

\* C19: when scope(name) raises BenchSiteNotLoadedError (sites/name holds no
\* site_config.json), the identifier is name already and the cache built
\* before is gone: `scoped` reads true, `site` raises
\* BenchSiteNotLoadedError, and no tenant is left in the cache.
C19_FailedScopeHasRescoped ==
    [][(/\ last'.op = "scope" /\ last'.arg \in SiteNames
        /\ last'.exc = "BenchSiteNotLoadedError")
       => (/\ ~IsSiteDir(fs, last'.arg)
           /\ GetSiteName(Main)' = last'.arg
           /\ ScopedOf(GetSiteName(Main)')
           /\ SiteCall(sites_obj', fs', GetSiteName(Main)').exc = "BenchSiteNotLoadedError"
           /\ HasAttr(sites_obj', PrivSites)
           /\ DOMAIN sites_obj'[PrivSites] = {})]_vars

\* After a scope to a site directory, a scope to a name that is no site
\* directory has raised BenchSiteNotLoadedError and is the identifier now.
C19_Witness ==
    /\ last.op = "scope" /\ last.exc = "BenchSiteNotLoadedError"
    /\ GetSiteName(Main) = last.arg
    /\ scope_log[2] = last.arg
    /\ scope_log[1] \in SiteNames \ {last.arg}
    /\ IsSiteDir(fs, scope_log[1])

====
